---- MODULE Spec2Model ----
(***************************************************************************)
(* A model of the hierarchical data tree of fusion-yun/spdb.               *)
(*                                                                         *)
(* sp::db::Entry (source/db/Entry.cpp) is a std::variant whose Object,     *)
(* Array, Block and Reference alternatives hold shared_ptrs.  The model    *)
(* keeps a heap of Entry objects and heaps of the objects the shared_ptrs  *)
(* point to; identity of a node is its heap id.                            *)
(***************************************************************************)
EXTENDS Integers, Sequences, FiniteSets, TLC

\* ------------------------------------------------------------------ bounds
NumShared == 2      \* Entries held by a shared_ptr<Entry> (roots, Reference targets)
MaxChild == 2       \* Entries that live inside containers

Shared == 1..NumShared
Child == (NumShared + 1)..(NumShared + MaxChild)
EntryIds == Shared \cup Child
\* every Entry holds at most one shared_ptr, so this many heap cells suffice
CellIds == 1..(NumShared + MaxChild)
\* the keys of the maps: a name, and the key sp::Entry keeps its attribute under
Keys == {"a", "@a"}
VARIABLES impl, entries, objects, arrays, htree, mtree, factory, last

vars == <<impl, entries, objects, arrays, htree, mtree, factory, last>>

\* ------------------------------------------------------------ sp::db::Entry
\* Entry::type_tags, the alternatives of the variant
Tags == {"Empty", "Reference", "Block", "Object", "Array", "Scalar"}

EmptyValue == [tag |-> "Empty", ptr |-> 0]

NoObject == [self |-> 0, kv |-> [k \in Keys |-> 0]]

NoArray == [self |-> 0, elems |-> <<>>]

\* the heap as one value, so that the operations can be composed
State == [entries |-> entries, objects |-> objects, arrays |-> arrays]

Min(S) == CHOOSE x \in S : \A y \in S : x <= y

\* --------------------------------------------------------------- ownership
ObjChildren(s, c) == {s.objects[c].kv[k] : k \in Keys} \ {0}

ArrChildren(s, c) == {s.arrays[c].elems[i] : i \in 1..Len(s.arrays[c].elems)}

\* the Entries stored in the container an Entry owns
ChildrenOf(s, e) ==
    IF s.entries[e].tag = "Object" THEN ObjChildren(s, s.entries[e].ptr)
    ELSE IF s.entries[e].tag = "Array" THEN ArrChildren(s, s.entries[e].ptr)
    ELSE {}

RECURSIVE Reach(_, _, _)
Reach(s, S, n) ==
    IF n = 0 THEN S
    ELSE Reach(s, S \cup UNION {ChildrenOf(s, e) : e \in S}, n - 1)

\* the Entries that exist: the shared ones and all they own
Live(s) == Reach(s, Shared, MaxChild)

UsedCells(s, tag) == {s.entries[e].ptr : e \in {x \in EntryIds : s.entries[x].tag = tag}}

StoredChildren(s) ==
    UNION {ObjChildren(s, c) : c \in CellIds} \cup UNION {ArrChildren(s, c) : c \in CellIds}

\* destructors: what no live Entry owns any more is released
Release(s) ==
    LET live == Live(s)
        e1 == [e \in EntryIds |-> IF e \in live THEN s.entries[e] ELSE EmptyValue]
        s1 == [s EXCEPT !.entries = e1]
    IN  [entries |-> e1,
         objects |-> [c \in CellIds |-> IF c \in UsedCells(s1, "Object") THEN s.objects[c] ELSE NoObject],
         arrays |-> [c \in CellIds |-> IF c \in UsedCells(s1, "Array") THEN s.arrays[c] ELSE NoArray]]

\* make_shared: the cell the allocation returns
FreshCell(s, e, tag) ==
    IF e \notin UsedCells(s, tag) THEN e ELSE Min(CellIds \ UsedCells(s, tag))

FreeChildren(s) == Child \ StoredChildren(s)

\* ------------------------------------------------------------ call results
Result(s, err, ret, upd) == [s |-> s, err |-> err, ret |-> ret, upd |-> upd]

\* a chain of References longer than the heap has a cycle
Fuel == NumShared + MaxChild + 1

\* ------------------------------------------------ Entry: fetch, update, type
\* a fetch() that forgets the Reference case (used to test the properties)
FetchSelf(s, e) == e

\* Entry::fetch: one hop through a Reference, otherwise the Entry itself
Fetch(s, e) == IF s.entries[e].tag = "Reference" THEN s.entries[e].ptr ELSE e

\* a Reference whose shared_ptr<Entry> is null: fetch() dereferences it
NullReference(s, e) == s.entries[e].tag = "Reference" /\ s.entries[e].ptr = 0

\* how fetch() ends
FetchErr(s, e) == IF NullReference(s, e) THEN "undefined" ELSE "none"

\* Entry::type: the index of what fetch() returns
TypeOf(s, e) == s.entries[Fetch(s, e)].tag

\* Entry::update: forwards to the target of a Reference, recursively.  The
\* result names the Entries update() ran on; a cycle never returns.
RECURSIVE UpdateRec(_, _, _)
UpdateRec(s, e, fuel) ==
    IF fuel = 0 THEN [err |-> "diverges", upd |-> {}]
    ELSE IF NullReference(s, e) THEN [err |-> "undefined", upd |-> {}]
    ELSE IF s.entries[e].tag = "Reference"
         THEN LET r == UpdateRec(s, s.entries[e].ptr, fuel - 1)
              IN  [err |-> r.err, upd |-> {e} \cup r.upd]
         ELSE [err |-> "none", upd |-> {e}]

\* Entry::clear: emplace<nullptr_t>; what the old value owned is destroyed
Clear(s, e) == Release([s EXCEPT !.entries[e] = EmptyValue])

\* --------------------------------------- Entry: as_block, as_object, as_array
\* a promotion that allocates the container but never emplaces it
PromoteLost(s, e, X) == s

\* case Empty: emplace<X>(make_shared / create(this))
Promote(s, e, X) ==
    LET c == FreshCell(s, e, X)
        s1 == [s EXCEPT !.entries[e] = [tag |-> X, ptr |-> c]]
    IN  IF X = "Object" THEN [s1 EXCEPT !.objects[c] = [self |-> e, kv |-> [k \in Keys |-> 0]]]
        ELSE IF X = "Array" THEN [s1 EXCEPT !.arrays[c] = [self |-> e, elems |-> <<>>]]
        ELSE s1

\* the as_* that call update() after forwarding through a Reference
CallsUpdate(X) == X = "Array"

\* return *std::get<X>(fetch())
GetFetched(s, e, X, upd) ==
    LET t == Fetch(s, e)
    IN  IF s.entries[t].tag = X THEN Result(s, "none", s.entries[t].ptr, upd)
        ELSE Result(s, "bad_variant_access", 0, upd)

\* the switch of the mutable as_block / as_object / as_array
RECURSIVE As(_, _, _, _)

\* a switch without the Reference case: the default throws
AsNoForward(s, e, X, fuel) ==
    IF s.entries[e].tag = "Reference" THEN Result(s, "illegal_type", 0, {})
    ELSE IF s.entries[e].tag = "Empty" THEN GetFetched(Promote(s, e, X), e, X, {})
    ELSE IF s.entries[e].tag = X THEN GetFetched(s, e, X, {})
    ELSE Result(s, "illegal_type", 0, {})

\* a switch whose default case coerces: the old value is replaced
AsCoerce(s, e, X, fuel) ==
    IF s.entries[e].tag \in {"Empty", "Reference", X} THEN AsNoForward(s, e, X, fuel)
    ELSE GetFetched(Promote(Clear(s, e), e, X), e, X, {})

\* a switch whose default case destroys the old value before it throws
AsClearsOnMismatch(s, e, X, fuel) ==
    IF s.entries[e].tag \in {"Empty", "Reference", X} THEN AsNoForward(s, e, X, fuel)
    ELSE Result(Clear(s, e), "illegal_type", 0, {})

As(s, e, X, fuel) ==
    LET v == s.entries[e]
    IN  IF fuel = 0 THEN Result(s, "diverges", 0, {})
        ELSE IF v.tag = "Empty" THEN GetFetched(Promote(s, e, X), e, X, {})
        ELSE IF v.tag = X THEN GetFetched(s, e, X, {})
        ELSE IF NullReference(s, e) THEN Result(s, "undefined", 0, {})
        ELSE IF v.tag = "Reference"
             THEN LET r == As(s, v.ptr, X, fuel - 1)
                      u == IF CallsUpdate(X) THEN UpdateRec(r.s, e, Fuel)
                           ELSE [err |-> "none", upd |-> {}]
                  IN  IF r.err # "none" THEN r
                      ELSE IF u.err # "none" THEN Result(r.s, u.err, 0, r.upd \cup u.upd)
                      ELSE GetFetched(r.s, e, X, r.upd \cup u.upd)
        ELSE Result(s, "illegal_type", 0, {})

\* const as_block / as_object: type() decides, one hop through a Reference
ConstAsViaType(s, e, X) ==
    IF NullReference(s, e) THEN Result(s, "undefined", 0, {})
    ELSE IF TypeOf(s, e) # X THEN Result(s, "illegal_type", 0, {})
    ELSE GetFetched(s, e, X, {})

\* const as_array: index() decides, a Reference is not looked through
ConstAsArray(s, e) ==
    IF s.entries[e].tag # "Array" THEN Result(s, "illegal_type", 0, {})
    ELSE GetFetched(s, e, "Array", {})

\* a read that promotes and forwards as the mutable as_* do
ConstAsPromotes(s, e, X) == As(s, e, X, Fuel)

ConstAs(s, e, X) == IF X = "Array" THEN ConstAsArray(s, e) ELSE ConstAsViaType(s, e, X)

\* ------------------------------------------------------ EntryObjectDefault
\* size(): m_container_.size()
ObjSize(s, c) == Cardinality({k \in Keys : s.objects[c].kv[k] # 0})

\* an insert that never emplaces the new child
ObjInsertNothing(s, c, k) == Result(s, "none", s.objects[c].kv[k], {})

\* an insert that emplaces over the child already there
ObjInsertOver(s, c, k) ==
    LET n == IF s.objects[c].kv[k] # 0 THEN s.objects[c].kv[k] ELSE Min(FreeChildren(s))
    IN  Result(Release([s EXCEPT !.objects[c].kv[k] = n, !.entries[n] = EmptyValue]), "none", n, {})

\* m_container_.try_emplace(name).first->second
ObjInsert(s, c, k) ==
    IF s.objects[c].kv[k] # 0 THEN Result(s, "none", s.objects[c].kv[k], {})
    ELSE LET n == Min(FreeChildren(s))
         IN  Result([s EXCEPT !.objects[c].kv[k] = n, !.entries[n] = EmptyValue], "none", n, {})

\* m_container_.at(path): std::map::at throws std::out_of_range
ObjAt(s, c, k) ==
    IF s.objects[c].kv[k] # 0 THEN Result(s, "none", s.objects[c].kv[k], {})
    ELSE Result(s, "out_of_range", 0, {})

\* an erase that empties the whole map
ObjEraseAll(s, c, k) ==
    Result(Release([s EXCEPT !.objects[c].kv = [x \in Keys |-> 0]]), "none", 0, {})

\* m_container_.erase(m_container_.find(path)): erasing end() is undefined
ObjErase(s, c, k) ==
    IF s.objects[c].kv[k] # 0
    THEN Result(Release([s EXCEPT !.objects[c].kv[k] = 0]), "none", 0, {})
    ELSE Result(s, "undefined", 0, {})

\* copy(): new this_type(*this).  m_self_ is nullptr and the map is copied
\* element by element; the copy of an Entry is the copy of its variant, so
\* a child that holds a shared_ptr is copied as the same pointer.  The new
\* container ends up in the Entry e.
ObjCopy(s, c, e) ==
    LET present == {k \in Keys : s.objects[c].kv[k] # 0}
        new == CHOOSE f \in [present -> FreeChildren(s)] :
                   \A k1, k2 \in present : k1 # k2 => f[k1] # f[k2]
        c2 == FreshCell(s, e, "Object")
    IN  Result([entries |-> [x \in EntryIds |->
                                IF x = e THEN [tag |-> "Object", ptr |-> c2]
                                ELSE IF \E k \in present : new[k] = x
                                     THEN s.entries[s.objects[c].kv[CHOOSE k \in present : new[k] = x]]
                                ELSE s.entries[x]],
                objects |-> [s.objects EXCEPT ![c2] =
                                [self |-> 0,
                                 kv |-> [k \in Keys |-> IF k \in present THEN new[k] ELSE 0]]],
                arrays |-> s.arrays],
               "none", c2, {})

\* ------------------------------------------------------- EntryArrayDefault
ArrSize(s, c) == Len(s.arrays[c].elems)

\* an at() that appends when the index is one past the end
ArrAtGrow(s, c, idx) ==
    IF idx >= 0 /\ idx < ArrSize(s, c) THEN Result(s, "none", s.arrays[c].elems[idx + 1], {})
    ELSE IF idx = ArrSize(s, c) /\ FreeChildren(s) # {}
         THEN LET n == Min(FreeChildren(s))
              IN  Result([s EXCEPT !.arrays[c].elems = Append(@, n), !.entries[n] = EmptyValue],
                         "none", n, {})
    ELSE Result(s, "out_of_range", 0, {})

\* m_container_.at(idx): the int converts to size_t, std::vector::at throws
ArrAt(s, c, idx) ==
    IF idx >= 0 /\ idx < ArrSize(s, c) THEN Result(s, "none", s.arrays[c].elems[idx + 1], {})
    ELSE Result(s, "out_of_range", 0, {})

\* item(idx): make_cursor(&m_container_.at(idx)), a cursor on that element
ArrItem(s, c, idx) == ArrAt(s, c, idx)

\* m_container_.emplace_back()
ArrPushBack(s, c) ==
    LET n == Min(FreeChildren(s))
    IN  Result([s EXCEPT !.arrays[c].elems = Append(@, n), !.entries[n] = EmptyValue], "none", n, {})

\* m_container_.pop_back(): undefined on an empty vector
ArrPopBack(s, c) ==
    IF ArrSize(s, c) > 0
    THEN Result(Release([s EXCEPT !.arrays[c].elems = SubSeq(@, 1, Len(@) - 1)]), "none", 0, {})
    ELSE Result(s, "undefined", 0, {})

\* ------------------------------------------------------------------- XPath
MaxPathLen == 2
MaxIndex == 1

KeySeg(k) == [kind |-> "Key", key |-> k, idx |-> 0]

IndexSeg(i) == [kind |-> "Index", key |-> "", idx |-> i]

Segments == {KeySeg(k) : k \in Keys} \cup {IndexSeg(i) : i \in 0..MaxIndex}

Paths == UNION {[1..n -> Segments] : n \in 0..MaxPathLen}

\* the children a walk along the path may have to create
NeedsChild(s) == FreeChildren(s) # {}

\* EntryObject::insert(const XPath&): the loop from segment i on, p the cursor
RECURSIVE InsertWalk(_, _, _, _)
InsertWalk(s, p, path, i) ==
    IF i > Len(path) THEN Result(s, "none", p, {})
    ELSE IF path[i].kind = "Key"
         THEN LET o == As(s, p, "Object", Fuel)
              IN  IF o.err # "none" THEN o
                  ELSE IF o.s.objects[o.ret].kv[path[i].key] = 0 /\ ~NeedsChild(o.s)
                       THEN Result(o.s, "bound", 0, o.upd)
                  ELSE LET n == ObjInsert(o.s, o.ret, path[i].key)
                           w == InsertWalk(n.s, n.ret, path, i + 1)
                       IN  Result(w.s, w.err, w.ret, o.upd \cup w.upd)
         ELSE LET a == As(s, p, "Array", Fuel)
              IN  IF a.err # "none" THEN a
                  ELSE LET n == ArrAt(a.s, a.ret, path[i].idx)
                       IN  IF n.err # "none" THEN Result(n.s, n.err, 0, a.upd)
                           ELSE LET w == InsertWalk(n.s, n.ret, path, i + 1)
                                IN  Result(w.s, w.err, w.ret, a.upd \cup w.upd)

\* EntryObject::at(const XPath&) const: the loop from segment i on
RECURSIVE AtWalk(_, _, _, _)
AtWalk(s, p, path, i) ==
    IF i > Len(path) THEN Result(s, "none", p, {})
    ELSE IF path[i].kind = "Key"
         THEN LET o == ConstAs(s, p, "Object")
              IN  IF o.err # "none" THEN o
                  ELSE LET n == ObjAt(o.s, o.ret, path[i].key)
                       IN  IF n.err # "none" THEN n ELSE AtWalk(n.s, n.ret, path, i + 1)
         ELSE LET a == ConstAs(s, p, "Array")
              IN  IF a.err # "none" THEN a
                  ELSE LET n == ArrAt(a.s, a.ret, path[i].idx)
                       IN  IF n.err # "none" THEN n ELSE AtWalk(n.s, n.ret, path, i + 1)

\* Entry* p = m_self_ and the loop
InsertPathOf(s, c, path) == InsertWalk(s, s.objects[c].self, path, 1)

AtPathOf(s, c, path) == AtWalk(s, s.objects[c].self, path, 1)

\* -------------------------------------------------------- HierarchicalTree
\* The node of source/HierarchicalTree.h holds its HTreeObject or HTreeArray
\* by value in m_data_; the children live in the holder's map or vector.
HtIds == 1..(1 + MaxChild)
\* the root node: the one constructed with no parent
HtRoot == Min(HtIds)
\* two of the scalar alternatives of TypeList; NULL_TAG, OBJECT_TAG and
\* ARRAY_TAG are "Null", "Object" and "Array"
HtLeafTags == {"String", "Int"}

\* the variant of the data model an alternative of m_data_ stands for
HtVariant(tag) == IF tag \in HtLeafTags THEN "Scalar" ELSE tag

\* HierarchicalTree(p, name): m_parent_(p), m_data_(nullptr)
HtNode(p) == [tag |-> "Null", kv |-> [k \in Keys |-> 0], elems |-> <<>>, parent |-> p]

HtChildren(h, n) ==
    ({h[n].kv[k] : k \in Keys} \ {0}) \cup {h[n].elems[i] : i \in 1..Len(h[n].elems)}

RECURSIVE HtReach(_, _, _)
HtReach(h, S, k) ==
    IF k = 0 THEN S ELSE HtReach(h, S \cup UNION {HtChildren(h, n) : n \in S}, k - 1)

HtLive(h) == HtReach(h, {HtRoot}, MaxChild)

\* destructors of the nodes no holder stores any more
HtRelease(h) == [n \in HtIds |-> IF n \in HtLive(h) THEN h[n] ELSE HtNode(0)]

HtFree(h) == HtIds \ HtLive(h)

HtResult(h, err, ret) == [h |-> h, err |-> err, ret |-> ret]

\* m_data_.emplace<TAG>(...): the old alternative is destroyed
HtEmplace(h, n, tag) ==
    HtRelease([h EXCEPT ![n].tag = tag, ![n].kv = [k \in Keys |-> 0], ![n].elems = <<>>])

\* HierarchicalTree::set_value<V>, and operator=(const V&) which calls it
HtSetValue(h, n, V) == HtResult(HtEmplace(h, n, V), "none", n)

\* HierarchicalTree::clear: empties the holder of an Object or Array node
HtClear(h, n) ==
    IF h[n].tag = "Array" THEN HtResult(HtRelease([h EXCEPT ![n].elems = <<>>]), "none", n)
    ELSE IF h[n].tag = "Object"
         THEN HtResult(HtRelease([h EXCEPT ![n].kv = [k \in Keys |-> 0]]), "none", n)
    ELSE HtResult(h, "none", n)

\* HierarchicalTree::as_object / as_array: a null node becomes the container
HtAs(h, n, tag) ==
    LET h1 == IF h[n].tag = "Null" THEN HtEmplace(h, n, tag) ELSE h
    IN  IF h1[n].tag # tag THEN HtResult(h1, "runtime_error", 0) ELSE HtResult(h1, "none", n)

\* HierarchicalTree::insert(key): as_object().try_emplace(key, this, key)
HtInsert(h, n, k) ==
    LET o == HtAs(h, n, "Object")
    IN  IF o.err # "none" THEN o
        ELSE IF o.h[n].kv[k] # 0 THEN HtResult(o.h, "none", o.h[n].kv[k])
        ELSE LET c == Min(HtFree(o.h))
             IN  HtResult([o.h EXCEPT ![n].kv[k] = c, ![c] = HtNode(n)], "none", c)

\* HierarchicalTree::push_back: as_array().emplace_back(m_parent_, m_name_)
HtPushBack(h, n) ==
    LET a == HtAs(h, n, "Array")
    IN  IF a.err # "none" THEN a
        ELSE LET c == Min(HtFree(a.h))
             IN  HtResult([a.h EXCEPT ![n].elems = Append(@, c), ![c] = HtNode(a.h[n].parent)],
                          "none", c)

\* HierarchicalTree::size: the size of the holder, 0 for a leaf
HtSize(h, n) ==
    IF h[n].tag = "Array" THEN Len(h[n].elems)
    ELSE IF h[n].tag = "Object" THEN Cardinality({k \in Keys : h[n].kv[k] # 0})
    ELSE 0

\* HierarchicalTree::erase(key): HTreeObject::erase, m_data_.erase(key), on an
\* Object node; nothing on any other node
HtErase(h, n, k) ==
    IF h[n].tag = "Object" THEN HtResult(HtRelease([h EXCEPT ![n].kv[k] = 0]), "none", 0)
    ELSE HtResult(h, "none", 0)

\* HTreeArray::push_back(): cursor(m_data_.rbegin()), nothing is appended
HtArrayPushBack(h, n) ==
    LET a == HtAs(h, n, "Array")
    IN  IF a.err # "none" THEN a
        ELSE HtResult(a.h, "none", IF a.h[n].elems = <<>> THEN 0 ELSE a.h[n].elems[Len(a.h[n].elems)])

\* HierarchicalTree::pop_back: as_array().pop_back(), m_data_.pop_back()
HtPopBack(h, n) ==
    LET a == HtAs(h, n, "Array")
    IN  IF a.err # "none" THEN a
        ELSE IF a.h[n].elems = <<>> THEN HtResult(a.h, "undefined", 0)
        ELSE HtResult(HtRelease([a.h EXCEPT ![n].elems = SubSeq(@, 1, Len(@) - 1)]), "none", 0)

\* HierarchicalTree::operator[](int): as_array().at(idx), m_data_.at(idx)
HtAt(h, n, idx) ==
    LET a == HtAs(h, n, "Array")
    IN  IF a.err # "none" THEN a
        ELSE IF idx >= 0 /\ idx < Len(a.h[n].elems) THEN HtResult(a.h, "none", a.h[n].elems[idx + 1])
        ELSE HtResult(a.h, "out_of_range", 0)

\* ---------------------------------------------------------------- sp::Entry
\* The Entry of source/Entry.cpp owns an EntryInterfaceInMemory whose m_data_
\* holds the vector or map of child Entries by value.
MemIds == 1..(1 + MaxChild)
\* the Entry the program constructed itself
MemRoot == Min(MemIds)
\* Entry::Type in the order of the variant: the leaves come before Array
MemLeafTypes == {"Null", "Single", "Tensor", "Block"}

\* EntryInterfaceInMemory(self, parent): m_data_(nullptr)
MemNode(self, parent) ==
    [tag |-> "Null", kv |-> [k \in Keys |-> 0], elems |-> <<>>, parent |-> parent, self |-> self]

MemChildren(m, n) ==
    ({m[n].kv[k] : k \in Keys} \ {0}) \cup {m[n].elems[i] : i \in 1..Len(m[n].elems)}

RECURSIVE MemReach(_, _, _)
MemReach(m, S, k) ==
    IF k = 0 THEN S ELSE MemReach(m, S \cup UNION {MemChildren(m, n) : n \in S}, k - 1)

MemLive(m) == MemReach(m, {MemRoot}, MaxChild)

\* ~Entry of what no container stores any more
MemRelease(m) == [n \in MemIds |-> IF n \in MemLive(m) THEN m[n] ELSE MemNode(0, 0)]

MemFree(m) == MemIds \ MemLive(m)

MemResult(m, err, ret) == [m |-> m, err |-> err, ret |-> ret]

\* the address of an Entry that was destroyed
Gone == 0 - 1

\* Entry(m_self_) moved into the container: the child's own m_self_ is the
\* address of the temporary, its parent the m_self_ of this node
MemChild(m, n) == MemNode(Gone, m[n].self)

\* set_single / set_tensor / set_block: type() < Array, else "Set value failed!"
MemSetLeaf(m, n, T) ==
    IF m[n].tag \in MemLeafTypes
    THEN MemResult([m EXCEPT ![n].tag = T], "none", n)
    ELSE MemResult(m, "runtime_error", 0)

\* find(key): the child, a null iterator when absent or not an Object
MemFind(m, n, k) == IF m[n].tag = "Object" THEN m[n].kv[k] ELSE 0

\* Entry::at(key): throws std::out_of_range(key) on a null iterator
MemAtKey(m, n, k) ==
    IF MemFind(m, n, k) # 0 THEN MemResult(m, "none", MemFind(m, n, k))
    ELSE MemResult(m, "out_of_range", 0)

\* Entry::has_a(key): !find(key)
MemHasA(m, n, k) == MemFind(m, n, k) = 0

\* the attributes a caller asks for
AttrNames == {"a"}

\* "@" + name
AttrKey(name) == "@" \o name

\* has_attribute(name): !find("@" + name)
MemHasAttribute(m, n, name) == MemFind(m, n, AttrKey(name)) = 0

\* get_single(): "This is not block!" unless the node is a Single
MemGetSingle(m, n) ==
    IF m[n].tag = "Single" THEN MemResult(m, "none", n) ELSE MemResult(m, "runtime_error", 0)

\* get_attribute_raw(name): std::out_of_range when find("@" + name) is null
MemGetAttributeRaw(m, n, name) ==
    IF MemFind(m, n, AttrKey(name)) = 0 THEN MemResult(m, "out_of_range", 0)
    ELSE MemGetSingle(m, MemFind(m, n, AttrKey(name)))

\* insert(key): a Null node becomes an Object; m.emplace(key, Entry(m_self_))
MemInsert(m, n, k) ==
    LET m1 == IF m[n].tag = "Null" THEN [m EXCEPT ![n].tag = "Object"] ELSE m
    IN  IF m1[n].tag # "Object" THEN MemResult(m1, "null_iterator", 0)
        ELSE IF m1[n].kv[k] # 0 THEN MemResult(m1, "none", m1[n].kv[k])
        ELSE LET c == Min(MemFree(m1))
             IN  MemResult([m1 EXCEPT ![n].kv[k] = c, ![c] = MemChild(m1, n)], "none", c)

\* erase(key): swaps the child out and erases it; Entry() for anything else
MemErase(m, n, k) ==
    IF MemFind(m, n, k) # 0 THEN MemResult(MemRelease([m EXCEPT ![n].kv[k] = 0]), "none", 0)
    ELSE MemResult(m, "none", 0)

\* at(int): &m[idx] with no bounds check; a null iterator if not an Array
MemAt(m, n, idx) ==
    IF m[n].tag # "Array" THEN MemResult(m, "null_iterator", 0)
    ELSE IF idx >= 0 /\ idx < Len(m[n].elems) THEN MemResult(m, "none", m[n].elems[idx + 1])
    ELSE MemResult(m, "undefined", 0)

\* push_back(): a Null node becomes an Array; m.emplace_back(Entry(m_self_))
MemPushBack(m, n) ==
    LET m1 == IF m[n].tag = "Null" THEN [m EXCEPT ![n].tag = "Array"] ELSE m
    IN  IF m1[n].tag # "Array" THEN MemResult(m1, "null_iterator", 0)
        ELSE LET c == Min(MemFree(m1))
             IN  MemResult([m1 EXCEPT ![n].elems = Append(@, c), ![c] = MemChild(m1, n)], "none", c)

\* Entry::operator[](int): a negative index appends, *push_back(); otherwise
\* at(idx) and std::out_of_range on a null iterator
MemIndex(m, n, idx) ==
    IF idx < 0
    THEN LET r == MemPushBack(m, n)
         IN  IF r.err = "null_iterator" THEN MemResult(r.m, "undefined", 0) ELSE r
    ELSE LET r == MemAt(m, n, idx)
         IN  IF r.err = "null_iterator" THEN MemResult(m, "out_of_range", 0) ELSE r

\* pop_back(): m.rbegin()->swap(res); m.pop_back(); Entry() if not an Array
MemPopBack(m, n) ==
    IF m[n].tag # "Array" THEN MemResult(m, "none", 0)
    ELSE IF m[n].elems = <<>> THEN MemResult(m, "undefined", 0)
    ELSE MemResult(MemRelease([m EXCEPT ![n].elems = SubSeq(@, 1, Len(@) - 1)]), "none", 0)

\* ------------------------------------------------------ EntryObject::create
\* request strings are sequences of characters
MaxRequestLen == 4

Chars == {"f", ".", ":", "h", "5"}

Requests == UNION {[1..n -> Chars] : n \in 0..MaxRequestLen}

\* std::string::find(ch): the first position, counted from 0; -1 is npos
StrFind(str, ch) ==
    IF \E i \in 1..Len(str) : str[i] = ch
    THEN Min({i \in 1..Len(str) : str[i] = ch}) - 1
    ELSE -1

\* std::string::rfind(ch): the last position
StrRFind(str, ch) ==
    IF \E i \in 1..Len(str) : str[i] = ch
    THEN Len(str) - 1 - StrFind([i \in 1..Len(str) |-> str[Len(str) + 1 - i]], ch)
    ELSE -1

\* std::string::substr(pos, n)
SubStr(str, pos, n) == SubSeq(str, pos + 1, Min({pos + n, Len(str)}))

\* a schema that leaves the '.' out
SchemaAfterDot(request) ==
    IF StrFind(request, ":") # -1 THEN SubStr(request, 0, StrFind(request, ":"))
    ELSE IF StrRFind(request, ".") # -1
         THEN SubStr(request, StrRFind(request, ".") + 1, Len(request))
    ELSE request

\* the schema of a request: up to the first ':', else from the last '.' on,
\* else the whole request
Schema(request) ==
    IF StrFind(request, ":") # -1 THEN SubStr(request, 0, StrFind(request, ":"))
    ELSE IF StrRFind(request, ".") # -1
         THEN SubStr(request, StrRFind(request, "."), Len(request))
    ELSE request

\* the name SPDB_ENTRY_REGISTER(hdf5, hdf5_node) registers
Hdf5Name == <<"h", "d", "f", "5">>

\* the pattern SPDB_ENTRY_ASSOCIATE gives it: "^(.*)\\.(hdf5|h5)$"
Hdf5Matches(str) ==
    \E suffix \in {<<".", "h", "5">>, <<".">> \o Hdf5Name} :
        /\ Len(str) >= Len(suffix)
        /\ SubSeq(str, Len(str) - Len(suffix) + 1, Len(str)) = suffix

\* the identifiers a caller may pass to EntryObject::add_creator
CreatorIds == {Hdf5Name, <<"h", "5">>, <<".", "h", "5">>, <<"f">>, <<>>}

\* Factory<EntryObject> and Factory<NodeBackend> are two registries; the
\* backend of the container the last create() made is kept with them
NoFactory == [object |-> {}, backend |-> {}, assoc |-> {}, made |-> <<>>]

\* Factory<EntryObject>::has_creator(schema)
HasCreator(f, schema) == schema \in f.object

DefaultObject == <<"d", "e", "f", "a", "u", "l", "t">>

\* how create() ends: the backend of the container made, the Entry the
\* container is bound to, and the schema the failure names
Created(made, self) == [err |-> "none", made |-> made, self |-> self, what |-> <<>>]

CreateFails(schema) == [err |-> "runtime_error", made |-> <<>>, self |-> 0, what |-> schema]

\* a create() that makes the default container when no creator is registered
CreateFallsBack(f, self, request) ==
    IF request # <<>> /\ Schema(request) # <<>> /\ HasCreator(f, Schema(request))
    THEN Created(Schema(request), self)
    ELSE Created(DefaultObject, self)

\* a create() that asks the registry before it looks at the schema
CreateAsksFirst(f, self, request) ==
    IF HasCreator(f, Schema(request)) THEN Created(Schema(request), self)
    ELSE IF Schema(request) = <<>> THEN Created(DefaultObject, self)
    ELSE CreateFails(Schema(request))

\* EntryObject::create(self, request)
Create(f, self, request) ==
    IF request = <<>> THEN Created(DefaultObject, self)
    ELSE IF Schema(request) = <<>> THEN Created(DefaultObject, self)
    ELSE IF HasCreator(f, Schema(request)) THEN Created(Schema(request), self)
    ELSE CreateFails(Schema(request))

\* EntryObject::add_creator(c_id, fun): Factory<EntryObject>::add
AddCreator(f, id) == [f EXCEPT !.object = @ \cup {id}]

\* SPDB_ENTRY_REGISTER(hdf5, hdf5_node): Factory<NodeBackend>::add
PluginRegister(f) == [f EXCEPT !.backend = @ \cup {Hdf5Name}]

\* SPDB_ENTRY_ASSOCIATE(hdf5, hdf5_node, pattern): Factory<NodeBackend>::associate
PluginAssociate(f) == [f EXCEPT !.assoc = @ \cup {Hdf5Name}]

\* ----------------------------------------------------------------- actions
Kinds == {"Block", "Object", "Array"}

\* the last call: the operation, its receiver, its argument and how it ended
Call(op, e, kind, err) == [op |-> op, e |-> e, kind |-> kind, err |-> err]

\* what a call with undefined behaviour does: the checked build aborts, any
\* other build goes on with memory outside the container read or written
UndefinedOutcomes == {"abort", "garbage"}

\* the program is followed up to its first undefined call
Alive == last.err \notin UndefinedOutcomes

\* the ways a call that returned err may end
Outcomes(err) == IF err = "undefined" THEN UndefinedOutcomes ELSE {err}

\* a call on the sp::db::Entry tree
Becomes(s) ==
    /\ impl = "db" /\ Alive
    /\ entries' = s.entries
    /\ objects' = s.objects
    /\ arrays' = s.arrays
    /\ UNCHANGED <<impl, htree, mtree, factory>>

\* a call on the HierarchicalTree
HtBecomes(h) ==
    /\ impl = "htree" /\ Alive
    /\ htree' = h
    /\ UNCHANGED <<impl, entries, objects, arrays, mtree, factory>>

\* a call on the sp::Entry tree
MemBecomes(m) ==
    /\ impl = "mem" /\ Alive
    /\ mtree' = m
    /\ UNCHANGED <<impl, entries, objects, arrays, htree, factory>>

\* a call on the registries
FactoryBecomes(f) ==
    /\ impl = "db" /\ Alive
    /\ factory' = f
    /\ UNCHANGED <<impl, entries, objects, arrays, htree, mtree>>

\* which of the repository's trees the program built
Impls == {"db", "htree"}

InitTrees ==
    /\ entries = [e \in EntryIds |-> EmptyValue]
    /\ objects = [c \in CellIds |-> NoObject]
    /\ arrays = [c \in CellIds |-> NoArray]
    /\ htree = [n \in HtIds |-> HtNode(0)]
    /\ mtree = [n \in MemIds |-> IF n = MemRoot THEN MemNode(n, 0) ELSE MemNode(0, 0)]
    /\ factory = NoFactory
    /\ last = Call("init", 0, "", "none")

Init == impl \in Impls /\ InitTrees

DoFetch(e) ==
    /\ Becomes(State)
    /\ \E o \in Outcomes(FetchErr(State, e)) : last' = Call("fetch", e, "", o)

DoType(e) ==
    /\ Becomes(State)
    /\ \E o \in Outcomes(FetchErr(State, e)) : last' = Call("type", e, "", o)

DoUpdate(e) ==
    /\ Becomes(State)
    /\ \E o \in Outcomes(UpdateRec(State, e, Fuel).err) :
            last' = Call("update", e, "", o)

DoClear(e) ==
    /\ Becomes(Clear(State, e))
    /\ last' = Call("clear", e, "", "none")

DoAs(e, X) ==
    LET r == As(State, e, X, Fuel)
    IN  /\ Becomes(r.s)
        /\ \E o \in Outcomes(r.err) : last' = Call("as", e, X, o)

DoConstAs(e, X) ==
    /\ Becomes(State)
    /\ \E o \in Outcomes(ConstAs(State, e, X).err) :
            last' = Call("const_as", e, X, o)

\* the first write of a scalar into an Empty Entry
DoSetScalar(e) ==
    /\ entries[e].tag = "Empty"
    /\ Becomes([State EXCEPT !.entries[e] = [tag |-> "Scalar", ptr |-> 0]])
    /\ last' = Call("set_scalar", e, "", "none")

\* an Empty Entry is made a Reference to a shared Entry
DoSetReference(e, t) ==
    /\ entries[e].tag = "Empty"
    /\ t # e
    /\ Becomes([State EXCEPT !.entries[e] = [tag |-> "Reference", ptr |-> t]])
    /\ last' = Call("set_reference", e, "", "none")

\* an Empty Entry is given a Reference that holds no Entry
DoSetNullReference(e) ==
    /\ entries[e].tag = "Empty"
    /\ Becomes([State EXCEPT !.entries[e] = [tag |-> "Reference", ptr |-> 0]])
    /\ last' = Call("set_reference", e, "", "none")

\* an Empty Entry takes the copy of a container
DoCopyObject(c, e) ==
    /\ entries[e].tag = "Empty"
    /\ Cardinality(FreeChildren(State)) >= ObjSize(State, c)
    /\ Becomes(ObjCopy(State, c, e).s)
    /\ last' = Call("copy", e, "", "none")

DoObjInsert(c, k) ==
    /\ objects[c].kv[k] # 0 \/ NeedsChild(State)
    /\ Becomes(ObjInsert(State, c, k).s)
    /\ last' = Call("insert", c, k, "none")

DoPushBack(c) ==
    /\ NeedsChild(State)
    /\ Becomes(ArrPushBack(State, c).s)
    /\ last' = Call("push_back", c, "", "none")

DoInsertPath(c, path) ==
    LET r == InsertPathOf(State, c, path)
    IN  /\ r.err # "bound"
        /\ Becomes(r.s)
        /\ \E o \in Outcomes(r.err) : last' = Call("insert_path", c, "", o)

DoAtPath(c, path) ==
    LET r == AtPathOf(State, c, path)
    IN  /\ Becomes(r.s)
        /\ \E o \in Outcomes(r.err) : last' = Call("at_path", c, "", o)

DoHtAs(n, tag) ==
    LET r == HtAs(htree, n, tag)
    IN  /\ HtBecomes(r.h)
        /\ last' = Call("as", n, tag, r.err)

DoHtSetValue(n, V) ==
    /\ HtBecomes(HtSetValue(htree, n, V).h)
    /\ last' = Call("set_value", n, V, "none")

DoHtClear(n) ==
    /\ HtBecomes(HtClear(htree, n).h)
    /\ last' = Call("clear", n, "", "none")

DoHtInsert(n, k) ==
    LET r == HtInsert(htree, n, k)
    IN  /\ htree[n].tag \in {"Null", "Object"} /\ htree[n].kv[k] = 0 => HtFree(htree) # {}
        /\ HtBecomes(r.h)
        /\ last' = Call("insert", n, k, r.err)

DoHtPushBack(n) ==
    LET r == HtPushBack(htree, n)
    IN  /\ htree[n].tag \in {"Null", "Array"} => HtFree(htree) # {}
        /\ HtBecomes(r.h)
        /\ last' = Call("push_back", n, "", r.err)

\* the indices a caller passes, one below and one above what an array holds
Indexes == (0 - 1)..MaxChild

DoObjErase(c, k) ==
    LET r == ObjErase(State, c, k)
    IN  /\ Becomes(r.s)
        /\ \E o \in Outcomes(r.err) : last' = Call("erase", c, k, o)

DoObjAt(c, k) ==
    /\ Becomes(State)
    /\ last' = Call("at", c, k, ObjAt(State, c, k).err)

DoPopBack(c) ==
    LET r == ArrPopBack(State, c)
    IN  /\ Becomes(r.s)
        /\ \E o \in Outcomes(r.err) : last' = Call("pop_back", c, "", o)

DoArrAt(c, idx) ==
    /\ Becomes(State)
    /\ last' = Call("at_index", c, "", ArrAt(State, c, idx).err)

DoHtErase(n, k) ==
    /\ HtBecomes(HtErase(htree, n, k).h)
    /\ last' = Call("erase", n, k, "none")

DoHtArrayPushBack(n) ==
    LET r == HtArrayPushBack(htree, n)
    IN  /\ HtBecomes(r.h)
        /\ last' = Call("array_push_back", n, "", r.err)

DoHtPopBack(n) ==
    LET r == HtPopBack(htree, n)
    IN  /\ HtBecomes(r.h)
        /\ \E o \in Outcomes(r.err) : last' = Call("pop_back", n, "", o)

DoHtAt(n, idx) ==
    LET r == HtAt(htree, n, idx)
    IN  /\ HtBecomes(r.h)
        /\ last' = Call("at_index", n, "", r.err)

DoMemSetLeaf(n, T) ==
    LET r == MemSetLeaf(mtree, n, T)
    IN  /\ MemBecomes(r.m)
        /\ last' = Call("set_leaf", n, T, r.err)

DoMemInsert(n, k) ==
    LET r == MemInsert(mtree, n, k)
    IN  /\ mtree[n].tag \in {"Null", "Object"} /\ mtree[n].kv[k] = 0 => MemFree(mtree) # {}
        /\ MemBecomes(r.m)
        /\ last' = Call("insert", n, k, r.err)

DoMemErase(n, k) ==
    /\ MemBecomes(MemErase(mtree, n, k).m)
    /\ last' = Call("erase", n, k, "none")

DoMemAtKey(n, k) ==
    /\ MemBecomes(mtree)
    /\ last' = Call("at", n, k, MemAtKey(mtree, n, k).err)

\* a call that answers yes or no
Answer(b) == IF b THEN "true" ELSE "false"

DoMemHasA(n, k) ==
    /\ MemBecomes(mtree)
    /\ last' = Call("has_a", n, k, Answer(MemHasA(mtree, n, k)))

DoMemHasAttribute(n, name) ==
    /\ MemBecomes(mtree)
    /\ last' = Call("has_attribute", n, name, Answer(MemHasAttribute(mtree, n, name)))

DoMemGetAttributeRaw(n, name) ==
    /\ MemBecomes(mtree)
    /\ last' = Call("get_attribute_raw", n, name, MemGetAttributeRaw(mtree, n, name).err)

DoMemPushBack(n) ==
    LET r == MemPushBack(mtree, n)
    IN  /\ mtree[n].tag \in {"Null", "Array"} => MemFree(mtree) # {}
        /\ MemBecomes(r.m)
        /\ last' = Call("push_back", n, "", r.err)

DoMemIndex(n, idx) ==
    LET r == MemIndex(mtree, n, idx)
    IN  /\ (idx < 0 /\ mtree[n].tag \in {"Null", "Array"}) => MemFree(mtree) # {}
        /\ MemBecomes(r.m)
        /\ \E o \in Outcomes(r.err) : last' = Call("index", n, "", o)

DoMemPopBack(n) ==
    LET r == MemPopBack(mtree, n)
    IN  /\ MemBecomes(r.m)
        /\ \E o \in Outcomes(r.err) : last' = Call("pop_back", n, "", o)

DoAddCreator(id) ==
    /\ FactoryBecomes(AddCreator(factory, id))
    /\ last' = Call("add_creator", 0, "", "none")

DoPluginRegister ==
    /\ FactoryBecomes(PluginRegister(factory))
    /\ last' = Call("register", 0, "", "none")

DoPluginAssociate ==
    /\ FactoryBecomes(PluginAssociate(factory))
    /\ last' = Call("associate", 0, "", "none")

DoCreate(self, request) ==
    LET r == Create(factory, self, request)
    IN  /\ FactoryBecomes([factory EXCEPT !.made = r.made])
        /\ last' = Call("create", self, "", r.err)

NextHt ==
    \/ \E n \in HtLive(htree), tag \in {"Object", "Array"} : DoHtAs(n, tag)
    \/ \E n \in HtLive(htree), V \in HtLeafTags : DoHtSetValue(n, V)
    \/ \E n \in HtLive(htree) : DoHtClear(n)
    \/ \E n \in HtLive(htree), k \in Keys : DoHtInsert(n, k)
    \/ \E n \in HtLive(htree) : DoHtPushBack(n)

Next ==
    \/ \E e \in Live(State) : DoFetch(e)
    \/ \E e \in Live(State) : DoType(e)
    \/ \E e \in Live(State) : DoUpdate(e)
    \/ \E e \in Live(State) : DoClear(e)
    \/ \E e \in Live(State), X \in Kinds : DoAs(e, X)
    \/ \E e \in Live(State), X \in Kinds : DoConstAs(e, X)
    \/ \E e \in Live(State) : DoSetScalar(e)
    \/ \E e \in Live(State), t \in Shared : DoSetReference(e, t)
    \/ \E c \in UsedCells(State, "Object"), k \in Keys : DoObjInsert(c, k)
    \/ \E c \in UsedCells(State, "Array") : DoPushBack(c)
    \/ NextHt

Spec == Init /\ [][Next]_vars

\* the path walks, on the trees the same operations build
NextPath ==
    \/ \E e \in Live(State) : DoSetScalar(e)
    \/ \E e \in Live(State), t \in Shared : DoSetReference(e, t)
    \/ \E e \in Live(State) : DoClear(e)
    \/ \E e \in Live(State), X \in Kinds : DoAs(e, X)
    \/ \E c \in UsedCells(State, "Array") : DoPushBack(c)
    \/ \E c \in UsedCells(State, "Object"), path \in Paths : DoInsertPath(c, path)
    \/ \E c \in UsedCells(State, "Object"), path \in Paths : DoAtPath(c, path)

InitPath == impl = "db" /\ InitTrees

SpecPath == InitPath /\ [][NextPath]_vars

\* the keyed and indexed containers of the three trees
NextBox ==
    \/ \E e \in Live(State), X \in {"Object", "Array"} : DoAs(e, X)
    \/ \E e \in Live(State) : DoSetScalar(e)
    \/ \E c \in UsedCells(State, "Object"), k \in Keys : DoObjInsert(c, k)
    \/ \E c \in UsedCells(State, "Object"), k \in Keys : DoObjErase(c, k)
    \/ \E c \in UsedCells(State, "Object"), k \in Keys : DoObjAt(c, k)
    \/ \E c \in UsedCells(State, "Array") : DoPushBack(c)
    \/ \E c \in UsedCells(State, "Array") : DoPopBack(c)
    \/ \E c \in UsedCells(State, "Array"), idx \in Indexes : DoArrAt(c, idx)
    \/ \E n \in HtLive(htree), V \in HtLeafTags : DoHtSetValue(n, V)
    \/ \E n \in HtLive(htree), k \in Keys : DoHtInsert(n, k)
    \/ \E n \in HtLive(htree), k \in Keys : DoHtErase(n, k)
    \/ \E n \in HtLive(htree) : DoHtPushBack(n)
    \/ \E n \in HtLive(htree) : DoHtArrayPushBack(n)
    \/ \E n \in HtLive(htree) : DoHtPopBack(n)
    \/ \E n \in HtLive(htree), idx \in Indexes : DoHtAt(n, idx)
    \/ \E n \in MemLive(mtree), T \in MemLeafTypes \ {"Null"} : DoMemSetLeaf(n, T)
    \/ \E n \in MemLive(mtree), k \in Keys : DoMemInsert(n, k)
    \/ \E n \in MemLive(mtree), k \in Keys : DoMemErase(n, k)
    \/ \E n \in MemLive(mtree), k \in Keys : DoMemAtKey(n, k)
    \/ \E n \in MemLive(mtree), k \in Keys : DoMemHasA(n, k)
    \/ \E n \in MemLive(mtree), name \in AttrNames : DoMemHasAttribute(n, name)
    \/ \E n \in MemLive(mtree), name \in AttrNames : DoMemGetAttributeRaw(n, name)
    \/ \E n \in MemLive(mtree) : DoMemPushBack(n)
    \/ \E n \in MemLive(mtree), idx \in Indexes : DoMemIndex(n, idx)
    \/ \E n \in MemLive(mtree) : DoMemPopBack(n)

BoxImpls == {"db", "htree", "mem"}

InitBox == impl \in BoxImpls /\ InitTrees

SpecBox == InitBox /\ [][NextBox]_vars

\* References that may hold no Entry, and the calls that resolve them
NextNull ==
    \/ \E e \in Live(State) : DoSetScalar(e)
    \/ \E e \in Live(State), t \in Shared : DoSetReference(e, t)
    \/ \E e \in Live(State) : DoSetNullReference(e)
    \/ \E e \in Live(State) : DoClear(e)
    \/ \E e \in Live(State) : DoFetch(e)
    \/ \E e \in Live(State) : DoType(e)
    \/ \E e \in Live(State) : DoUpdate(e)
    \/ \E e \in Live(State), X \in Kinds : DoAs(e, X)
    \/ \E e \in Live(State), X \in Kinds : DoConstAs(e, X)

SpecNull == InitPath /\ [][NextNull]_vars

\* containers and their copies
NextCopy ==
    \/ \E e \in Live(State), X \in {"Object", "Array"} : DoAs(e, X)
    \/ \E e \in Live(State) : DoSetScalar(e)
    \/ \E c \in UsedCells(State, "Object"), k \in Keys : DoObjInsert(c, k)
    \/ \E c \in UsedCells(State, "Array") : DoPushBack(c)
    \/ \E c \in UsedCells(State, "Object"), e \in Live(State) : DoCopyObject(c, e)

SpecCopy == InitPath /\ [][NextCopy]_vars

\* the registries and EntryObject::create
NextCreate ==
    \/ \E id \in CreatorIds : DoAddCreator(id)
    \/ DoPluginRegister
    \/ DoPluginAssociate
    \/ \E self \in Shared, request \in Requests : DoCreate(self, request)

SpecCreate == InitPath /\ [][NextCreate]_vars

\* ------------------------------------------------------------------ claims
\* the Entry a chain of References ends in, 0 when the chain is a cycle
RECURSIVE ChainEnd(_, _, _)
ChainEnd(s, e, fuel) ==
    IF fuel = 0 THEN 0
    ELSE IF s.entries[e].tag = "Reference" THEN ChainEnd(s, s.entries[e].ptr, fuel - 1)
    ELSE e

OnCycle(s, e) == ChainEnd(s, e, Fuel) = 0

OtherEntriesSame(s1, s2, keep) == \A x \in EntryIds \ keep : s1.entries[x] = s2.entries[x]

\* C1: for every tree and path, insert(P) followed by at(P) on the same root
\* returns the very node insert(P) returned.
C1_InsertThenAtSameNode ==
    \A c \in UsedCells(State, "Object"), path \in Paths :
        LET r == InsertPathOf(State, c, path)
        IN  r.err = "none" =>
                LET a == AtPathOf(r.s, c, path) IN a.err = "none" /\ a.ret = r.ret

\* C2: resolving an Entry on a cycle of References by fetch, type, update or
\* as_* ends within a hop limit with the failure CyclicReference.
C2_CycleFailsWithCyclicReference ==
    (impl = "db" /\ last.op \in {"fetch", "type", "update", "as"} /\ OnCycle(State, last.e))
        => last.err = "CyclicReference"

\* C3: as_object / as_array / as_block on an Entry A that is Reference(B)
\* acts on B: B holds the container, the container returned is B's, and A is
\* still Reference(B); nothing else changes.
C3_AsThroughReferenceActsOnTarget ==
    \A a \in Live(State), X \in Kinds :
        entries[a].tag = "Reference" =>
            LET b == entries[a].ptr
                r == As(State, a, X, Fuel)
            IN  /\ r.s.entries[a] = entries[a]
                /\ r.err = "none" => r.s.entries[b].tag = X /\ r.ret = r.s.entries[b].ptr
                /\ entries[b].tag \in {"Empty", X} =>
                        /\ r.err = "none"
                        /\ OtherEntriesSame(r.s, State, {b})
                        /\ entries[b].tag = X => r.s.entries[b] = entries[b]

C3_Witness ==
    /\ impl = "db" /\ last.op = "as" /\ last.err = "none"
    /\ entries[last.e].tag = "Reference"
    /\ entries[entries[last.e].ptr].tag = last.kind

\* C4: for A set to Reference(B), A.fetch() is B itself and the DataBlock
\* written through A is the one read from B; for a concrete Entry fetch()
\* is the Entry itself.
C4_FetchIsTarget ==
    \A a \in Live(State) :
        /\ entries[a].tag # "Reference" => Fetch(State, a) = a
        /\ entries[a].tag = "Reference" =>
                LET b == entries[a].ptr
                    w == As(State, a, "Block", Fuel)
                IN  /\ Fetch(State, a) = b
                    /\ entries[b].tag \in {"Empty", "Block"} =>
                            /\ w.err = "none"
                            /\ ConstAs(w.s, b, "Block") = Result(w.s, "none", w.ret, {})
                            /\ ConstAs(w.s, a, "Block") = Result(w.s, "none", w.ret, {})

C4_Witness ==
    /\ impl = "db" /\ last.op = "fetch"
    /\ entries[last.e].tag = "Reference"
    /\ entries[entries[last.e].ptr].tag = "Block"

\* C5: type() of an Entry whose chain of References ends in a non-Reference
\* Entry is that Entry's tag, also for chains of two or more hops.
C5_TypeResolvesWholeChain ==
    \A e \in Live(State) :
        ~OnCycle(State, e) =>
            /\ TypeOf(State, e) = entries[ChainEnd(State, e, Fuel)].tag
            /\ TypeOf(State, e) # "Reference"

\* C6: as_object, as_array and as_block on a Reference Entry each call
\* update() on that Entry before they return.
C6_UpdateAfterEveryWrite ==
    \A e \in Live(State), X \in Kinds :
        LET r == As(State, e, X, Fuel)
        IN  (entries[e].tag = "Reference" /\ r.err = "none") => e \in r.upd

\* C7: as_object() on an Empty Entry makes it an Object with a new, empty
\* default container and returns that; on an Object it returns the same
\* container and changes nothing; a second call returns the same again.
C7_AsObjectPromotesOnce ==
    /\ \A e \in Live(State) :
            LET r == As(State, e, "Object", Fuel)
                again == As(r.s, e, "Object", Fuel)
            IN  /\ entries[e].tag = "Empty" =>
                        /\ r.err = "none"
                        /\ r.s.entries[e] = [tag |-> "Object", ptr |-> r.ret]
                        /\ r.ret \notin UsedCells(State, "Object")
                        /\ r.s.objects[r.ret] = [self |-> e, kv |-> [k \in Keys |-> 0]]
                        /\ OtherEntriesSame(r.s, State, {e})
                /\ entries[e].tag = "Object" =>
                        r = Result(State, "none", entries[e].ptr, {})
                /\ entries[e].tag \in {"Empty", "Object"} =>
                        again = Result(r.s, "none", r.ret, {})
    /\ \A n \in HtLive(htree) :
            LET r == HtAs(htree, n, "Object")
            IN  /\ htree[n].tag = "Null" =>
                        /\ r.err = "none" /\ r.ret = n
                        /\ r.h = [htree EXCEPT ![n].tag = "Object"]
                /\ htree[n].tag = "Object" => r = HtResult(htree, "none", n)
                /\ htree[n].tag \in {"Null", "Object"} =>
                        HtAs(r.h, n, "Object") = HtResult(r.h, "none", n)

C7_Witness ==
    /\ impl = "db" /\ last.op = "as" /\ last.kind = "Object" /\ last.err = "none"
    /\ entries[last.e].tag = "Object"
    /\ ObjChildren(State, entries[last.e].ptr) # {}

\* C8: as_object, as_array, as_block on an Entry whose variant is neither
\* Empty, Reference nor the one asked for fail with the type error and leave
\* the tree as it was.
C8_MismatchThrowsAndKeeps ==
    /\ \A e \in Live(State), X \in Kinds :
            entries[e].tag \notin {"Empty", "Reference", X} =>
                As(State, e, X, Fuel) = Result(State, "illegal_type", 0, {})
    /\ \A n \in HtLive(htree), tag \in {"Object", "Array"} :
            htree[n].tag \notin {"Null", tag} =>
                HtAs(htree, n, tag) = HtResult(htree, "runtime_error", 0)

C8_Witness ==
    /\ impl = "db" /\ last.op = "as" /\ last.err = "illegal_type"
    /\ entries[last.e].tag \notin {"Empty", "Reference", last.kind}

\* C9: once a node holds a non-Empty variant, no operation but clear()
\* changes its variant tag; a value setter never makes a leaf of an Object
\* or Array node.
C9_OneWayPromotion ==
    [][last'.op # "clear" =>
        /\ \A e \in Live(State) :
                entries[e].tag # "Empty" => entries'[e].tag = entries[e].tag
        /\ \A n \in HtLive(htree) \cap HtLive(htree') :
                htree[n].tag # "Null" => HtVariant(htree'[n].tag) = HtVariant(htree[n].tag)]_vars

\* C10: after clear() the node is Empty whatever it held before, and its
\* former children are no longer reachable from it.
C10_ClearResetsToEmpty ==
    last.op = "clear" =>
        /\ impl = "db" => entries[last.e] = EmptyValue
        /\ impl = "htree" => htree[last.e].tag = "Null" /\ HtChildren(htree, last.e) = {}

\* ------------------------------------------------- claims on the containers
MaxInserts == 3

\* the calls insert(k) of a run, in order, repeats included
KeySeqs == UNION {[1..n -> Keys] : n \in 0..MaxInserts}

SeqRange(q) == {q[i] : i \in 1..Len(q)}

RECURSIVE InsertAll(_, _, _)
InsertAll(s, c, ks) ==
    IF ks = <<>> THEN s ELSE InsertAll(ObjInsert(s, c, Head(ks)).s, c, Tail(ks))

RECURSIVE HtInsertAll(_, _, _)
HtInsertAll(h, n, ks) ==
    IF ks = <<>> THEN h ELSE HtInsertAll(HtInsert(h, n, Head(ks)).h, n, Tail(ks))

\* C11: on an empty keyed container, after insert(k) was called for n
\* distinct keys, in any order and with repeats, size() is n.
C11_SizeCountsDistinctKeys ==
    /\ \A c \in UsedCells(State, "Object"), ks \in KeySeqs :
            (ObjSize(State, c) = 0 /\ Cardinality(SeqRange(ks)) <= Cardinality(FreeChildren(State)))
                => ObjSize(InsertAll(State, c, ks), c) = Cardinality(SeqRange(ks))
    /\ \A n \in HtLive(htree), ks \in KeySeqs :
            (/\ htree[n].tag \in {"Null", "Object"}
             /\ HtSize(htree, n) = 0
             /\ Cardinality(SeqRange(ks)) <= Cardinality(HtFree(htree)))
                => HtSize(HtInsertAll(htree, n, ks), n) = Cardinality(SeqRange(ks))

C11_Witness ==
    /\ impl = "db" /\ last.op = "insert"
    /\ ObjSize(State, last.e) = Cardinality(Keys)

\* the Entries of the subtree below e, e included
Subtree(s, e) == Reach(s, {e}, MaxChild)

\* C12: insert(key) with the key present returns the child that is there
\* and changes nothing, neither the child's content nor size(); with the key
\* absent it creates exactly one Empty child under key.
C12_InsertIsIdempotent ==
    /\ \A c \in UsedCells(State, "Object"), k \in Keys :
            /\ objects[c].kv[k] # 0 =>
                    ObjInsert(State, c, k) = Result(State, "none", objects[c].kv[k], {})
            /\ (objects[c].kv[k] = 0 /\ FreeChildren(State) # {}) =>
                    LET r == ObjInsert(State, c, k)
                    IN  /\ r.err = "none" /\ r.ret \notin Live(State)
                        /\ r.s.entries[r.ret] = EmptyValue
                        /\ r.s.objects = [objects EXCEPT ![c].kv[k] = r.ret]
                        /\ r.s.arrays = arrays
                        /\ OtherEntriesSame(r.s, State, {r.ret})
                        /\ ObjSize(r.s, c) = ObjSize(State, c) + 1
    /\ \A n \in MemLive(mtree), k \in Keys :
            mtree[n].tag = "Object" =>
                /\ mtree[n].kv[k] # 0 =>
                        MemInsert(mtree, n, k) = MemResult(mtree, "none", mtree[n].kv[k])
                /\ (mtree[n].kv[k] = 0 /\ MemFree(mtree) # {}) =>
                        LET r == MemInsert(mtree, n, k)
                        IN  /\ r.err = "none" /\ r.ret \notin MemLive(mtree)
                            /\ r.m[r.ret].tag = "Null" /\ MemChildren(r.m, r.ret) = {}
                            /\ \A x \in MemIds \ {n, r.ret} : r.m[x] = mtree[x]
                            /\ r.m[n] = [mtree[n] EXCEPT !.kv[k] = r.ret]
    /\ \A n \in HtLive(htree), k \in Keys :
            htree[n].tag = "Object" =>
                /\ htree[n].kv[k] # 0 =>
                        HtInsert(htree, n, k) = HtResult(htree, "none", htree[n].kv[k])
                /\ (htree[n].kv[k] = 0 /\ HtFree(htree) # {}) =>
                        LET r == HtInsert(htree, n, k)
                        IN  /\ r.err = "none" /\ r.ret \notin HtLive(htree)
                            /\ r.h[r.ret].tag = "Null" /\ HtChildren(r.h, r.ret) = {}
                            /\ \A x \in HtIds \ {n, r.ret} : r.h[x] = htree[x]
                            /\ r.h[n] = [htree[n] EXCEPT !.kv[k] = r.ret]

C12_Witness ==
    /\ impl = "db" /\ last.op = "insert"
    /\ last.e \in UsedCells(State, "Object")
    /\ objects[last.e].kv[last.kind] # 0
    /\ entries[objects[last.e].kv[last.kind]].tag # "Empty"

C14_EraseAbsentIsDefined ==
    /\ \A c \in UsedCells(State, "Object"), k \in Keys :
            objects[c].kv[k] = 0 =>
                /\ ObjErase(State, c, k).err \in {"none", "out_of_range"}
                /\ ObjErase(State, c, k).s = State
    /\ \A n \in HtLive(htree), k \in Keys :
            (htree[n].tag = "Object" /\ htree[n].kv[k] = 0) =>
                /\ HtErase(htree, n, k).err \in {"none", "out_of_range"}
                /\ HtErase(htree, n, k).h = htree

\* C15: at(i), const or not, and item(i) with i < 0 or i >= size() fail as
\* out of range: no element is returned and the array does not grow.
C15_AtOutOfRangeFails ==
    /\ \A c \in UsedCells(State, "Array"), idx \in Indexes :
            (idx < 0 \/ idx >= ArrSize(State, c)) =>
                /\ ArrAt(State, c, idx) = Result(State, "out_of_range", 0, {})
                /\ ArrItem(State, c, idx) = Result(State, "out_of_range", 0, {})
    /\ \A n \in MemLive(mtree), idx \in Indexes :
            (/\ mtree[n].tag = "Array"
             /\ idx < 0 \/ idx >= Len(mtree[n].elems)
             /\ idx < 0 => MemFree(mtree) # {}) =>
                /\ MemAt(mtree, n, idx) = MemResult(mtree, "out_of_range", 0)
                /\ MemIndex(mtree, n, idx) = MemResult(mtree, "out_of_range", 0)

RECURSIVE PushTimes(_, _, _)
PushTimes(s, c, n) == IF n = 0 THEN s ELSE PushTimes(ArrPushBack(s, c).s, c, n - 1)

RECURSIVE PopTimes(_, _, _)
PopTimes(s, c, n) == IF n = 0 THEN s ELSE PopTimes(ArrPopBack(s, c).s, c, n - 1)

\* C16: push_back() makes size() one larger and appends an Empty entry,
\* pop_back() on a non-empty array makes it one smaller and removes the last
\* element; n of the one and then n of the other on an empty array end at
\* size() = 0.
C16_PushPopRoundTrip ==
    /\ \A c \in UsedCells(State, "Array") :
            /\ FreeChildren(State) # {} =>
                    LET r == ArrPushBack(State, c)
                    IN  /\ r.err = "none"
                        /\ r.s.arrays[c].elems = Append(arrays[c].elems, r.ret)
                        /\ r.s.entries[r.ret] = EmptyValue
            /\ ArrSize(State, c) > 0 =>
                    LET r == ArrPopBack(State, c)
                    IN  /\ r.err = "none"
                        /\ r.s.arrays[c].elems = SubSeq(arrays[c].elems, 1, ArrSize(State, c) - 1)
            /\ ArrSize(State, c) = 0 =>
                    \A n \in 0..Cardinality(FreeChildren(State)) :
                        ArrSize(PopTimes(PushTimes(State, c, n), c, n), c) = 0
    /\ \A n \in HtLive(htree) :
            (htree[n].tag = "Array" /\ HtFree(htree) # {}) =>
                /\ HtSize(HtPushBack(htree, n).h, n) = HtSize(htree, n) + 1
                /\ HtSize(HtArrayPushBack(htree, n).h, n) = HtSize(htree, n) + 1
    /\ \A n \in HtLive(htree) :
            (htree[n].tag = "Array" /\ HtSize(htree, n) > 0) =>
                HtSize(HtPopBack(htree, n).h, n) = HtSize(htree, n) - 1

\* C17: pop_back() on an empty array fails as out of range and the array
\* stays empty.
C17_PopBackOnEmptyFails ==
    /\ \A c \in UsedCells(State, "Array") :
            ArrSize(State, c) = 0 => ArrPopBack(State, c) = Result(State, "out_of_range", 0, {})
    /\ \A n \in HtLive(htree) :
            (htree[n].tag = "Array" /\ HtSize(htree, n) = 0) =>
                HtPopBack(htree, n) = HtResult(htree, "out_of_range", 0)
    /\ \A n \in MemLive(mtree) :
            (mtree[n].tag = "Array" /\ mtree[n].elems = <<>>) =>
                MemPopBack(mtree, n) = MemResult(mtree, "out_of_range", 0)

\* ------------------------------------------------- claims on the path walks
\* C18: an Index segment i that meets an array with i >= size() fails as out
\* of range, in insert(path) and in at(path), and leaves that array as it
\* was; no insert(path) ever changes the elements of an array.
C18_PathIndexNeverGrows ==
    /\ \A p \in Live(State), i \in 0..MaxIndex :
            LET a == As(State, p, "Array", Fuel)
                w == InsertWalk(State, p, <<IndexSeg(i)>>, 1)
            IN  (a.err = "none" /\ i >= ArrSize(a.s, a.ret)) =>
                    /\ w.err = "out_of_range"
                    /\ w.s.arrays[a.ret] = a.s.arrays[a.ret]
                    /\ a.ret \in UsedCells(State, "Array") => w.s.arrays[a.ret] = arrays[a.ret]
    /\ \A p \in Live(State), i \in 0..MaxIndex :
            LET a == ConstAs(State, p, "Array")
            IN  (a.err = "none" /\ i >= ArrSize(State, a.ret)) =>
                    AtWalk(State, p, <<IndexSeg(i)>>, 1) = Result(State, "out_of_range", 0, {})
    /\ \A c \in UsedCells(State, "Object"), path \in Paths :
            LET r == InsertPathOf(State, c, path)
            IN  r.err # "bound" =>
                    /\ \A x \in UsedCells(State, "Array") : r.s.arrays[x] = arrays[x]
                    /\ \A x \in UsedCells(r.s, "Array") \ UsedCells(State, "Array") :
                            r.s.arrays[x].elems = <<>>
                    /\ AtPathOf(r.s, c, path).s = r.s

C18_Witness ==
    /\ impl = "db" /\ last.op = "insert_path" /\ last.err = "out_of_range"
    /\ \E x \in UsedCells(State, "Array") : ArrSize(State, x) = MaxIndex

\* the segment, counted from 1, at which insert(path) fails
FailsAt(s, c, path) ==
    Min({i \in 1..Len(path) : InsertPathOf(s, c, SubSeq(path, 1, i)).err # "none"})

\* what() of the exception a failure throws
What(err) == IF err = "illegal_type" THEN "illegal type" ELSE err

\* C19: a walk that reaches a node that cannot be coerced to what the next
\* segment needs fails with the type error, and the failure tells the index
\* of the failing segment: the index can be read off what is thrown.
C19_TypeMismatchNamesSegment ==
    /\ \A p \in Live(State), seg \in Segments :
            LET need == IF seg.kind = "Key" THEN "Object" ELSE "Array"
            IN  entries[p].tag \in {"Scalar", "Block", "Object", "Array"} \ {need} =>
                    /\ InsertWalk(State, p, <<seg>>, 1) = Result(State, "illegal_type", 0, {})
                    /\ AtWalk(State, p, <<seg>>, 1) = Result(State, "illegal_type", 0, {})
    /\ \E index \in [{What("illegal_type")} -> 1..MaxPathLen] :
            \A c \in UsedCells(State, "Object"), path \in Paths :
                InsertPathOf(State, c, path).err = "illegal_type" =>
                    index[What(InsertPathOf(State, c, path).err)] = FailsAt(State, c, path)

\* --------------------------------------------- claims on EntryObject::create
\* C20: a request with no ':' has as scheme what follows its last '.', and
\* once the HDF5 plugin has registered itself a request ending in .h5 or
\* .hdf5 makes create() return that plugin's container.
C20_ExtensionResolvesToHdf5 ==
    (Hdf5Name \in factory.backend /\ Hdf5Name \in factory.assoc) =>
        \A request \in Requests :
            (StrFind(request, ":") = -1 /\ StrRFind(request, ".") # -1) =>
                /\ Schema(request) = SchemaAfterDot(request)
                /\ Hdf5Matches(request) =>
                        \A self \in Shared :
                            Create(factory, self, request) = Created(Hdf5Name, self)

\* C21: create() with a request whose schema is not empty and has no
\* registered creator fails, the failure names the schema, and no container
\* is made: neither a null one nor the default one.
C21_UnknownSchemaFails ==
    \A self \in Shared, request \in Requests :
        (request # <<>> /\ Schema(request) # <<>> /\ ~HasCreator(factory, Schema(request))) =>
            LET r == Create(factory, self, request)
            IN  /\ r.err = "runtime_error"
                /\ r.what = Schema(request)
                /\ r.made = <<>>

C21_Witness ==
    /\ last.op = "create" /\ last.err = "runtime_error"
    /\ factory.object # {}
    /\ factory.made = <<>>

\* C22: create() with an empty request, or with a request whose schema is
\* empty, returns the default container bound to the Entry given, whatever
\* the registry holds.
C22_EmptySchemaMakesDefault ==
    \A self \in Shared, request \in Requests :
        (request = <<>> \/ Schema(request) = <<>>) =>
            Create(factory, self, request) = Created(DefaultObject, self)

C22_Witness ==
    /\ last.op = "create" /\ last.err = "none"
    /\ factory.made = DefaultObject
    /\ <<>> \in factory.object

\* C23: fetch, type, update or as_* on an Entry whose Reference holds no
\* Entry ends with the failure NotFound, and the missing target is never
\* dereferenced.
C23_NullReferenceReportsNotFound ==
    (impl = "db" /\ last.op \in {"fetch", "type", "update", "as"}
                 /\ NullReference(State, last.e))
        => last.err = "NotFound"

\* C24: the const as_object() and the const as_array() on an Entry that is a
\* Reference to an Object, respectively an Array, return the container of
\* the target and do not fail.
C24_ConstAsThroughReference ==
    \A e \in Live(State), X \in {"Object", "Array"} :
        (impl = "db" /\ entries[e].tag = "Reference" /\ entries[entries[e].ptr].tag = X) =>
            ConstAs(State, e, X) = Result(State, "none", entries[entries[e].ptr].ptr, {})

\* C25: for A = Reference(B), B = Reference(C) and C Empty or Object,
\* A.as_object() succeeds, returns the container of C (promoting C when it
\* was Empty) and leaves A and B the References they were.
C25_ChainedAsObject ==
    \A a \in Live(State) :
        (impl = "db" /\ entries[a].tag = "Reference"
                     /\ entries[entries[a].ptr].tag = "Reference"
                     /\ entries[entries[entries[a].ptr].ptr].tag \in {"Empty", "Object"}) =>
            LET b == entries[a].ptr
                c == entries[b].ptr
                r == As(State, a, "Object", Fuel)
            IN  /\ r.err = "none"
                /\ r.s.entries[c].tag = "Object"
                /\ r.ret = r.s.entries[c].ptr
                /\ r.s.entries[a] = entries[a]
                /\ r.s.entries[b] = entries[b]

\* C26: no EntryObject or EntryArray is held by the Object or Array variant
\* of two different Entries, whatever was promoted, inserted, erased, cleared
\* or copied.
C26_OwnershipIsATree ==
    \A e1, e2 \in Live(State) :
        (e1 # e2 /\ entries[e1].tag \in {"Object", "Array"} /\ entries[e1].tag = entries[e2].tag)
            => entries[e1].ptr # entries[e2].ptr

\* C27: at(path) changes nothing, whether it succeeds or fails: every Entry
\* keeps its variant, no Empty Entry on the path is promoted, and every
\* container keeps exactly its children.
C27_AtPathChangesNothing ==
    \A c \in UsedCells(State, "Object"), path \in Paths :
        AtPathOf(State, c, path).s = State

C27_Witness ==
    /\ last.op = "at_path" /\ last.err = "illegal_type"
    /\ \E c \in UsedCells(State, "Object"), k \in Keys :
            /\ objects[c].kv[k] # 0
            /\ entries[objects[c].kv[k]].tag = "Empty"
            /\ AtPathOf(State, c, <<KeySeg(k), KeySeg(k)>>).err = "illegal_type"

\* what an insert(path) may do to a tree: every Entry that was not Empty
\* keeps its value, every container keeps the children it had
KeepsWhatWasThere(s1, s2) ==
    /\ \A e \in Live(s1) : s1.entries[e].tag # "Empty" => s2.entries[e] = s1.entries[e]
    /\ \A c \in UsedCells(s1, "Object"), k \in Keys :
            s1.objects[c].kv[k] # 0 => s2.objects[c].kv[k] = s1.objects[c].kv[k]
    /\ \A c \in UsedCells(s1, "Array") : s2.arrays[c] = s1.arrays[c]

InsertFailures == {"illegal_type", "out_of_range"}

\* C28 as claimed: an insert(path) that fails with the type error or with
\* out_of_range leaves the tree exactly as it was before the call.
C28_FailingInsertIsAtomic ==
    \A c \in UsedCells(State, "Object"), path \in Paths :
        InsertPathOf(State, c, path).err \in InsertFailures =>
            InsertPathOf(State, c, path).s = State

\* C28 amended: an insert(path) that fails at segment i is not rolled back.
\* The tree is the one the walk of the i - 1 segments before left, with the
\* children created and the Empty nodes promoted on the way; an Index segment
\* that fails with out_of_range has also promoted the node it met from Empty
\* to an empty Array.  Nothing that was there before the call is changed.
C28_FailingInsertKeepsPrefix ==
    \A c \in UsedCells(State, "Object"), path \in Paths :
        LET r == InsertPathOf(State, c, path)
        IN  r.err \in InsertFailures =>
                LET i == FailsAt(State, c, path)
                    pre == InsertPathOf(State, c, SubSeq(path, 1, i - 1))
                IN  /\ pre.err = "none"
                    /\ r.s = IF r.err = "out_of_range"
                             THEN As(pre.s, pre.ret, "Array", Fuel).s
                             ELSE pre.s
                    /\ KeepsWhatWasThere(State, r.s)

C28_Witness ==
    /\ last.op = "insert_path" /\ last.err = "out_of_range"
    /\ \E k \in Keys :
            LET e == objects[last.e].kv[k]
            IN  /\ e # 0
                /\ entries[e].tag = "Array"
                /\ ArrSize(State, entries[e].ptr) = 0

\* C29: in sp::Entry has_a(key) is true exactly when at(key) succeeds, and
\* has_attribute(name) is true exactly when get_attribute_raw(name) succeeds.
C29_HasAgreesWithAt ==
    impl = "mem" =>
        \A n \in MemLive(mtree) :
            /\ \A k \in Keys : MemHasA(mtree, n, k) <=> MemAtKey(mtree, n, k).err = "none"
            /\ \A name \in AttrNames :
                    MemHasAttribute(mtree, n, name)
                        <=> MemGetAttributeRaw(mtree, n, name).err = "none"

\* C30: every child stored under a node n has n as its parent(), in
\* HierarchicalTree and in sp::Entry alike.
C30_ParentIsTheHolder ==
    /\ impl = "htree" =>
            \A n \in HtLive(htree) : \A c \in HtChildren(htree, n) : htree[c].parent = n
    /\ impl = "mem" =>
            \A n \in MemLive(mtree) : \A c \in MemChildren(mtree, n) : mtree[c].parent = n

====
